---- MODULE Spec2Model ----
(***************************************************************************)
(* A model of two value types of grammers-client:                          *)
(*   - Group (types/chat/group.rs): a wrapper around tl::enums::Chat with  *)
(*     from_raw, id, pack and is_megagroup;                                *)
(*   - InputMessage (types/input_message.rs): the builder of an outgoing   *)
(*     message, one operator per builder method.                           *)
(* Both are synchronous values; every method is one atomic step.           *)
(***************************************************************************)
EXTENDS Integers, Sequences, FiniteSets, TLC

VARIABLES
    chat,       \* the tl::enums::Chat handed to Group::from_raw
    gpc,        \* "start" | "built" | "panicked": outcome of Group::from_raw
    group,      \* the Group that from_raw returned (NoGroup before / on panic)
    id_res,     \* Option<i64>: what the last id() call returned
    pack_res,   \* Option<PackedChat>: what the last pack() call returned
    mega_res,   \* Option<bool>: what the last is_megagroup() call returned
    msg,        \* the InputMessage being built (NoMsg before construction)
    last,       \* the most recent builder call: [op, arg]
    prev,       \* the draft that call was made on (NoMsg for a constructor)
    doc_log,    \* Some(the attribute(...) arguments since the document / file
                \* call that attached the current media, in call order), None
                \* when the current media was not attached by document / file
    ncalls      \* number of builder calls made on msg after construction

gvars == <<chat, gpc, group, id_res, pack_res, mega_res>>
mvars == <<msg, last, prev, doc_log, ncalls>>
vars ==
    <<chat, gpc, group, id_res, pack_res, mega_res, msg, last, prev, doc_log,
      ncalls>>

(***************************************************************************)
(* Bounds                                                                  *)
(***************************************************************************)
MaxChatId == 1
MaxCalls == 3

(***************************************************************************)
(* Option<T>                                                               *)
(***************************************************************************)
None == [some |-> FALSE]
Some(x) == [some |-> TRUE, v |-> x]

(***************************************************************************)
(* tl::enums::Chat: five variants.  Every variant has an id; Channel has   *)
(* access_hash: Option<i64> and broadcast; ChannelForbidden has            *)
(* access_hash: i64 and broadcast.                                         *)
(***************************************************************************)
ChatIds == -1 .. MaxChatId
AccessHashes == {11, 22}

RawChats ==
    [variant : {"Empty"}, id : ChatIds]
    \cup [variant : {"Chat"}, id : ChatIds, title : {"t"}]
    \cup [variant : {"Forbidden"}, id : ChatIds, title : {"t"}]
    \cup [variant : {"Channel"}, id : ChatIds, title : {"t"},
          broadcast : BOOLEAN,
          access_hash : {None} \cup {Some(h) : h \in AccessHashes}]
    \cup [variant : {"ChannelForbidden"}, id : ChatIds, title : {"t"},
          broadcast : BOOLEAN, access_hash : AccessHashes]

NoGroup == [none |-> TRUE]
Panic == [panic |-> "tried to create megagroup channel from broadcast"]

\* Group::from_raw: the Group built from the chat, or Panic.
from_raw_channel_only(c) ==
    CASE c.variant \in {"Empty", "Chat", "Forbidden", "ChannelForbidden"} ->
            [raw |-> c]
      [] c.variant = "Channel" ->
            IF c.broadcast THEN Panic ELSE [raw |-> c]

from_raw(c) ==
    CASE c.variant \in {"Empty", "Chat", "Forbidden"} -> [raw |-> c]
      [] c.variant = "Channel" ->
            IF c.broadcast THEN Panic ELSE [raw |-> c]
      [] c.variant = "ChannelForbidden" ->
            IF c.broadcast THEN Panic ELSE [raw |-> c]

\* Group::id
id_zero(g) == 0

id(g) == g.raw.id

\* Group::is_megagroup
is_megagroup_channel_only(g) == g.raw.variant = "Channel"

is_megagroup(g) ==
    CASE g.raw.variant \in {"Empty", "Chat", "Forbidden"} -> FALSE
      [] g.raw.variant \in {"Channel", "ChannelForbidden"} -> TRUE

\* Group::pack
pack_drop_hash(g) ==
    [ty |-> IF is_megagroup(g) THEN "Megagroup" ELSE "Chat",
     id |-> g.raw.id, access_hash |-> None]

pack(g) ==
    LET pair ==
          CASE g.raw.variant = "Empty" -> <<g.raw.id, None>>
            [] g.raw.variant = "Chat" -> <<g.raw.id, None>>
            [] g.raw.variant = "Forbidden" -> <<g.raw.id, None>>
            [] g.raw.variant = "Channel" -> <<g.raw.id, g.raw.access_hash>>
            [] g.raw.variant = "ChannelForbidden" ->
                  <<g.raw.id, Some(g.raw.access_hash)>>
    IN [ty |-> IF is_megagroup(g) THEN "Megagroup" ELSE "Chat",
        id |-> pair[1],
        access_hash |-> pair[2]]

(***************************************************************************)
(* Group: the calls                                                        *)
(***************************************************************************)
NoMsg == [none |-> TRUE]
NoCall == [op |-> "none", arg |-> None]

GroupInit ==
    /\ chat \in RawChats
    /\ gpc = "start"
    /\ group = NoGroup
    /\ id_res = None
    /\ pack_res = None
    /\ mega_res = None
    /\ msg = NoMsg
    /\ last = NoCall
    /\ prev = NoMsg
    /\ doc_log = None
    /\ ncalls = 0

CallFromRaw ==
    /\ gpc = "start"
    /\ LET r == from_raw(chat)
       IN IF r = Panic
          THEN gpc' = "panicked" /\ group' = NoGroup
          ELSE gpc' = "built" /\ group' = r
    /\ UNCHANGED <<chat, id_res, pack_res, mega_res, mvars>>

CallId ==
    /\ gpc = "built"
    /\ id_res' = Some(id(group))
    /\ UNCHANGED <<chat, gpc, group, pack_res, mega_res, mvars>>

CallPack ==
    /\ gpc = "built"
    /\ pack_res' = Some(pack(group))
    /\ UNCHANGED <<chat, gpc, group, id_res, mega_res, mvars>>

CallIsMegagroup ==
    /\ gpc = "built"
    /\ mega_res' = Some(is_megagroup(group))
    /\ UNCHANGED <<chat, gpc, group, id_res, pack_res, mvars>>

GroupNext ==
    \/ CallFromRaw
    \/ CallId
    \/ CallPack
    \/ CallIsMegagroup

GroupSpec == GroupInit /\ [][GroupNext]_vars

IsBroadcast(c) ==
    c.variant \in {"Channel", "ChannelForbidden"} /\ c.broadcast

(***************************************************************************)
(* InputMessage: the values the builder methods take                       *)
(***************************************************************************)
\* const SCHEDULE_ONCE_ONLINE: i32 = 0x7ffffffe
SCHEDULE_ONCE_ONLINE == 2147483646

\* i32::MAX, the largest value an `as i32` cast can produce
I32_MAX == 2147483647

\* Uploaded: an upload handle with its opaque token (raw) and name().
Files ==
    {[raw |-> "file_video", name |-> "video.mp4"],
     [raw |-> "file_data", name |-> "data.zzz"]}

Thumbs == {[raw |-> "file_thumb", name |-> "thumb.png"]}

Urls == {"https://example.org/a"}

\* mime_type(&str) arguments
MimeOverrides == {"audio/flac", "text/plain"}

\* media_ttl(i32) arguments
TtlSeconds == {-1, 0, 5}

Texts == {"", "hello"}

\* fmt_entities arguments: Vec<tl::enums::MessageEntity>
EntityLists == {<<>>, <<[variant |-> "Bold", offset |-> 0, length |-> 5]>>}

\* reply_markup arguments: a ReplyMarkup whose to_reply_markup().raw is .raw
Markups == {[raw |-> "inline_keyboard"]}

\* reply_to arguments
ReplyTargets == {None, Some(7)}

\* SystemTime.  A time at or after UNIX_EPOCH is after = TRUE with
\* hi * 2^31 + lo whole seconds since the epoch (0 <= lo < 2^31) and any
\* sub-second part; a time before the epoch is after = FALSE, lo seconds
\* before it.
Times ==
    {[after |-> TRUE, hi |-> 0, lo |-> 0],
     [after |-> TRUE, hi |-> 0, lo |-> 1700000000],
     [after |-> TRUE, hi |-> 0, lo |-> 2147483646],
     [after |-> TRUE, hi |-> 1, lo |-> 5],
     [after |-> TRUE, hi |-> 2, lo |-> 7],
     [after |-> TRUE, hi |-> 3, lo |-> 9],
     [after |-> FALSE, hi |-> 0, lo |-> 10]}

ScheduleArgs == {None} \cup {Some(t) : t \in Times}

\* Attribute (types/attributes.rs) values handed to attribute(...)
Attributes ==
    {[kind |-> "Audio", duration |-> 123],
     [kind |-> "FileName", name |-> "renamed.bin"]}

\* media(...) arguments: raw tl::enums::InputMedia built by the caller
RawMedias ==
    {[variant |-> "Dice", emoticon |-> "die"],
     [variant |-> "UploadedDocument", nosound_video |-> FALSE,
      force_file |-> FALSE, spoiler |-> TRUE, file |-> "file_raw",
      thumb |-> None, mime_type |-> "image/gif", attributes |-> <<>>,
      stickers |-> None, ttl_seconds |-> Some(9), video_cover |-> None,
      video_timestamp |-> None]}

\* copy_media(...) arguments: Media of a received message
Medias ==
    {[kind |-> "Photo", id |-> 42],
     [kind |-> "Unconvertible"]}

\* Media::to_raw_input_media: Some(outgoing form) when the media converts to
\* one, None otherwise.
to_raw_input_media(m) ==
    IF m.kind = "Photo"
    THEN Some([variant |-> "Photo", spoiler |-> FALSE, id |-> m.id,
               ttl_seconds |-> None])
    ELSE None

\* mime_guess::from_path(name).first(), as its essence string
mime_guess_first(name) ==
    CASE name = "video.mp4" -> Some("video/mp4")
      [] name = "thumb.png" -> Some("image/png")
      [] OTHER -> None

\* SystemTime::duration_since(UNIX_EPOCH): Ok(duration) at or after the
\* epoch, Err before it.
duration_since_epoch(t) ==
    IF t.after THEN [ok |-> TRUE, hi |-> t.hi, lo |-> t.lo]
    ELSE [ok |-> FALSE]

\* d.as_secs() as i32: the low 32 bits of the u64 seconds, reinterpreted as
\* a signed 32-bit integer (bit 31 is the parity of hi).
as_secs_as_i32_saturating(d) ==
    IF d.hi = 0 THEN d.lo ELSE I32_MAX

as_secs_as_i32(d) ==
    IF d.hi % 2 = 0 THEN d.lo ELSE (d.lo - I32_MAX) - 1

\* Attribute -> tl::enums::DocumentAttribute (attr.into())
attr_into(a) ==
    CASE a.kind = "Audio" ->
            [variant |-> "DocumentAttributeAudio", duration |-> a.duration]
      [] a.kind = "FileName" ->
            [variant |-> "DocumentAttributeFilename", file_name |-> a.name]

(***************************************************************************)
(* InputMessage: #[derive(Default)] and the constructors                   *)
(***************************************************************************)
Default_link_preview_on ==
    [background |-> FALSE,
     clear_draft |-> FALSE,
     entities |-> <<>>,
     invert_media |-> FALSE,
     link_preview |-> TRUE,
     reply_markup |-> None,
     reply_to |-> None,
     schedule_date |-> None,
     silent |-> FALSE,
     text |-> "",
     media |-> None,
     media_ttl |-> None,
     mime_type |-> None]

Default ==
    [background |-> FALSE,
     clear_draft |-> FALSE,
     entities |-> <<>>,
     invert_media |-> FALSE,
     link_preview |-> FALSE,
     reply_markup |-> None,
     reply_to |-> None,
     schedule_date |-> None,
     silent |-> FALSE,
     text |-> "",
     media |-> None,
     media_ttl |-> None,
     mime_type |-> None]

\* InputMessage::text
text(t) == [Default EXCEPT !.text = t]

\* impl From<&str> for InputMessage
from_str(t) == text(t)

\* impl From<String> for InputMessage
from_string(t) == [Default EXCEPT !.text = t]

(***************************************************************************)
(* InputMessage: the builder methods, each from the draft s to the draft   *)
(* it returns                                                              *)
(***************************************************************************)
background(s, b) == [s EXCEPT !.background = b]

clear_draft(s, b) == [s EXCEPT !.clear_draft = b]

fmt_entities(s, entities) == [s EXCEPT !.entities = entities]

invert_media(s, b) == [s EXCEPT !.invert_media = b]

link_preview(s, b) == [s EXCEPT !.link_preview = b]

reply_markup(s, markup) == [s EXCEPT !.reply_markup = Some(markup.raw)]

reply_to(s, r) == [s EXCEPT !.reply_to = r]

silent(s, b) == [s EXCEPT !.silent = b]

\* schedule_date.map(|t| t.duration_since(UNIX_EPOCH)
\*     .map(|d| d.as_secs() as i32).unwrap_or(0))
schedule_time_of(t) ==
    LET d == duration_since_epoch(t)
    IN IF d.ok THEN as_secs_as_i32(d) ELSE 0

schedule_date_keeps_once_online(s, arg) ==
    IF s.schedule_date = Some(SCHEDULE_ONCE_ONLINE) THEN s
    ELSE [s EXCEPT !.schedule_date =
            IF arg.some THEN Some(schedule_time_of(arg.v)) ELSE None]

schedule_date(s, arg) ==
    [s EXCEPT !.schedule_date =
        IF arg.some THEN Some(schedule_time_of(arg.v)) ELSE None]

schedule_once_online(s) ==
    [s EXCEPT !.schedule_date = Some(SCHEDULE_ONCE_ONLINE)]

\* get_file_mime: override, else the guess from the file name, else the
\* fallback constant.
get_file_mime_guess_first(s, f) ==
    IF mime_guess_first(f.name).some THEN mime_guess_first(f.name).v
    ELSE IF s.mime_type.some THEN s.mime_type.v
    ELSE "application/octet-stream"

get_file_mime(s, f) ==
    IF s.mime_type.some THEN s.mime_type.v
    ELSE IF mime_guess_first(f.name).some THEN mime_guess_first(f.name).v
    ELSE "application/octet-stream"

photo(s, f) ==
    [s EXCEPT !.media =
        Some([variant |-> "UploadedPhoto",
              spoiler |-> FALSE,
              file |-> f.raw,
              stickers |-> None,
              ttl_seconds |-> s.media_ttl])]

photo_url(s, url) ==
    [s EXCEPT !.media =
        Some([variant |-> "PhotoExternal",
              spoiler |-> FALSE,
              url |-> url,
              ttl_seconds |-> s.media_ttl])]

UploadedDocument(s, f, force) ==
    [variant |-> "UploadedDocument",
     nosound_video |-> FALSE,
     force_file |-> force,
     spoiler |-> FALSE,
     file |-> f.raw,
     thumb |-> None,
     mime_type |-> get_file_mime(s, f),
     attributes |->
        <<[variant |-> "DocumentAttributeFilename", file_name |-> f.name]>>,
     stickers |-> None,
     ttl_seconds |-> s.media_ttl,
     video_cover |-> None,
     video_timestamp |-> None]

document(s, f) == [s EXCEPT !.media = Some(UploadedDocument(s, f, FALSE))]

file(s, f) == [s EXCEPT !.media = Some(UploadedDocument(s, f, TRUE))]

media(s, m) == [s EXCEPT !.media = Some(m)]

document_url(s, url) ==
    [s EXCEPT !.media =
        Some([variant |-> "DocumentExternal",
              spoiler |-> FALSE,
              url |-> url,
              ttl_seconds |-> s.media_ttl,
              video_cover |-> None,
              video_timestamp |-> None])]

\* if let Some(InputMedia::UploadedDocument(document)) = &mut self.media
IsUploadedDocument(om) == om.some /\ om.v.variant = "UploadedDocument"

thumbnail_any_document(s, thumb) ==
    IF IsUploadedDocument(s.media)
    THEN [s EXCEPT !.media.v.thumb = Some(thumb.raw)]
    ELSE IF s.media.some /\ s.media.v.variant = "DocumentExternal"
    THEN [s EXCEPT !.media.v.video_cover = Some(thumb.raw)]
    ELSE s

thumbnail(s, thumb) ==
    IF IsUploadedDocument(s.media)
    THEN [s EXCEPT !.media.v.thumb = Some(thumb.raw)]
    ELSE s

attribute_prepends(s, attr) ==
    IF IsUploadedDocument(s.media)
    THEN [s EXCEPT !.media.v.attributes = <<attr_into(attr)>> \o @]
    ELSE s

attribute(s, attr) ==
    IF IsUploadedDocument(s.media)
    THEN [s EXCEPT !.media.v.attributes = Append(@, attr_into(attr))]
    ELSE s

copy_media_keeps_old(s, m) ==
    IF to_raw_input_media(m).some
    THEN [s EXCEPT !.media = to_raw_input_media(m)]
    ELSE s

copy_media(s, m) == [s EXCEPT !.media = to_raw_input_media(m)]

media_ttl_retrofits(s, seconds) ==
    LET ttl == IF seconds < 0 THEN None ELSE Some(seconds)
    IN IF s.media.some /\ "ttl_seconds" \in DOMAIN s.media.v
       THEN [s EXCEPT !.media_ttl = ttl, !.media.v.ttl_seconds = ttl]
       ELSE [s EXCEPT !.media_ttl = ttl]

media_ttl(s, seconds) ==
    [s EXCEPT !.media_ttl = IF seconds < 0 THEN None ELSE Some(seconds)]

mime_type(s, m) == [s EXCEPT !.mime_type = Some(m)]

(***************************************************************************)
(* InputMessage: the calls.  A draft is built once by a constructor and    *)
(* each later call replaces it by the value the method returns.            *)
(***************************************************************************)
Init ==
    /\ chat = [variant |-> "Empty", id |-> 0]
    /\ gpc = "start"
    /\ group = NoGroup
    /\ id_res = None
    /\ pack_res = None
    /\ mega_res = None
    /\ msg = NoMsg
    /\ last = NoCall
    /\ prev = NoMsg
    /\ doc_log = None
    /\ ncalls = 0

\* The record of attribute(...) calls made since document / file attached the
\* current media: started by document and file, dropped by every other
\* attach call, extended by attribute, kept by everything else.
NextDocLog(op, arg, log) ==
    CASE op \in {"document", "file"} -> Some(<<>>)
      [] op \in {"photo", "photo_url", "document_url", "media", "copy_media"}
            -> None
      [] op = "attribute" /\ log.some -> Some(Append(log.v, arg))
      [] OTHER -> log

Construct(op, arg, new) ==
    /\ msg = NoMsg
    /\ msg' = new
    /\ last' = [op |-> op, arg |-> arg]
    /\ prev' = NoMsg
    /\ doc_log' = None
    /\ ncalls' = 0
    /\ UNCHANGED gvars

Step(op, arg, new) ==
    /\ msg # NoMsg
    /\ ncalls < MaxCalls
    /\ msg' = new
    /\ last' = [op |-> op, arg |-> arg]
    /\ prev' = msg
    /\ doc_log' = NextDocLog(op, arg, doc_log)
    /\ ncalls' = ncalls + 1
    /\ UNCHANGED gvars

NewText == \E t \in Texts : Construct("text", t, text(t))
NewFromStr == \E t \in Texts : Construct("from_str", t, from_str(t))
NewFromString == \E t \in Texts : Construct("from_string", t, from_string(t))

CallBackground == \E b \in BOOLEAN : Step("background", b, background(msg, b))
CallClearDraft == \E b \in BOOLEAN : Step("clear_draft", b, clear_draft(msg, b))
CallFmtEntities ==
    \E e \in EntityLists : Step("fmt_entities", e, fmt_entities(msg, e))
CallInvertMedia ==
    \E b \in BOOLEAN : Step("invert_media", b, invert_media(msg, b))
CallLinkPreview ==
    \E b \in BOOLEAN : Step("link_preview", b, link_preview(msg, b))
CallReplyMarkup ==
    \E m \in Markups : Step("reply_markup", m, reply_markup(msg, m))
CallReplyTo == \E r \in ReplyTargets : Step("reply_to", r, reply_to(msg, r))
CallScheduleDate ==
    \E a \in ScheduleArgs : Step("schedule_date", a, schedule_date(msg, a))
CallScheduleOnceOnline ==
    Step("schedule_once_online", None, schedule_once_online(msg))
CallSilent == \E b \in BOOLEAN : Step("silent", b, silent(msg, b))
CallPhoto == \E f \in Files : Step("photo", f, photo(msg, f))
CallPhotoUrl == \E u \in Urls : Step("photo_url", u, photo_url(msg, u))
CallDocument == \E f \in Files : Step("document", f, document(msg, f))
CallMedia == \E m \in RawMedias : Step("media", m, media(msg, m))
CallThumbnail == \E t \in Thumbs : Step("thumbnail", t, thumbnail(msg, t))
CallDocumentUrl ==
    \E u \in Urls : Step("document_url", u, document_url(msg, u))
CallAttribute == \E a \in Attributes : Step("attribute", a, attribute(msg, a))
CallCopyMedia == \E m \in Medias : Step("copy_media", m, copy_media(msg, m))
CallFile == \E f \in Files : Step("file", f, file(msg, f))
CallMediaTtl == \E n \in TtlSeconds : Step("media_ttl", n, media_ttl(msg, n))
CallMimeType ==
    \E m \in MimeOverrides : Step("mime_type", m, mime_type(msg, m))

Next ==
    \/ NewText
    \/ NewFromStr
    \/ NewFromString
    \/ CallBackground
    \/ CallClearDraft
    \/ CallFmtEntities
    \/ CallInvertMedia
    \/ CallLinkPreview
    \/ CallReplyMarkup
    \/ CallReplyTo
    \/ CallScheduleDate
    \/ CallScheduleOnceOnline
    \/ CallSilent
    \/ CallPhoto
    \/ CallPhotoUrl
    \/ CallDocument
    \/ CallMedia
    \/ CallThumbnail
    \/ CallDocumentUrl
    \/ CallAttribute
    \/ CallCopyMedia
    \/ CallFile
    \/ CallMediaTtl
    \/ CallMimeType

Spec == Init /\ [][Next]_vars

(***************************************************************************)
(* Group: properties                                                       *)
(***************************************************************************)
IsChannelVariant(c) == c.variant \in {"Channel", "ChannelForbidden"}

\* C1: from_raw panics and returns no Group for every Channel and every
\* ChannelForbidden input whose broadcast flag is true, and no Group that
\* wraps a broadcast-flagged variant ever exists.
C1_BroadcastPanics ==
    /\ (gpc # "start" /\ IsBroadcast(chat)) =>
            (gpc = "panicked" /\ group = NoGroup)
    /\ group # NoGroup => ~IsBroadcast(group.raw)

C1_Witness ==
    /\ gpc = "panicked"
    /\ chat.variant = "ChannelForbidden"
    /\ chat.broadcast

\* C2: for every input of the five variants that is not a broadcast-flagged
\* channel, from_raw succeeds, the wrapped raw value is the input unchanged
\* and id() returns the input's id field.
C2_FromRawKeepsInput ==
    (gpc # "start" /\ ~IsBroadcast(chat)) =>
        /\ gpc = "built"
        /\ group = [raw |-> chat]
        /\ id_res.some => id_res.v = chat.id

C2_Witness ==
    /\ gpc = "built"
    /\ chat.variant = "Channel"
    /\ chat.id = -1
    /\ id_res = Some(-1)

\* C3 (as stated): pack() returns a key whose access_hash is present iff the
\* wrapped variant is Channel or ChannelForbidden, whose kind is Megagroup
\* iff is_megagroup() is true, and whose id equals id().
C3_PackAsStated ==
    pack_res.some =>
        /\ pack_res.v.access_hash.some <=> IsChannelVariant(group.raw)
        /\ (pack_res.v.ty = "Megagroup") <=> is_megagroup(group)
        /\ pack_res.v.ty \in {"Megagroup", "Chat"}
        /\ pack_res.v.id = id(group)

\* C3 (amended): pack() returns a key whose access_hash is absent for Empty,
\* Chat and Forbidden, is Some(the variant's access_hash) for
\* ChannelForbidden, and for Channel is the variant's own optional
\* access_hash (absent when the Channel carries none); its kind is Megagroup
\* iff is_megagroup() is true (Chat otherwise) and its id equals id().
C3_Pack ==
    pack_res.some =>
        /\ group.raw.variant \in {"Empty", "Chat", "Forbidden"} =>
                pack_res.v.access_hash = None
        /\ group.raw.variant = "ChannelForbidden" =>
                pack_res.v.access_hash = Some(group.raw.access_hash)
        /\ group.raw.variant = "Channel" =>
                pack_res.v.access_hash = group.raw.access_hash
        /\ (pack_res.v.ty = "Megagroup") <=> IsChannelVariant(group.raw)
        /\ mega_res.some => ((pack_res.v.ty = "Megagroup") <=> mega_res.v)
        /\ pack_res.v.ty \in {"Megagroup", "Chat"}
        /\ pack_res.v.id = chat.id
        /\ id_res.some => pack_res.v.id = id_res.v

C3_Witness ==
    /\ pack_res.some
    /\ group.raw.variant = "Channel"
    /\ group.raw.access_hash = None
    /\ pack_res.v = [ty |-> "Megagroup", id |-> group.raw.id,
                     access_hash |-> None]

\* C4: is_megagroup() is true iff the wrapped variant is Channel or
\* ChannelForbidden (false for Empty, Chat, Forbidden), and every Group for
\* which it is true wraps a variant whose broadcast flag is false.
C4_IsMegagroup ==
    mega_res.some =>
        /\ mega_res.v <=> IsChannelVariant(group.raw)
        /\ mega_res.v => ~group.raw.broadcast

C4_Witness ==
    /\ mega_res = Some(TRUE)
    /\ group.raw.variant = "ChannelForbidden"

(***************************************************************************)
(* InputMessage: properties.  In every state after a call, last is that    *)
(* call, prev the draft it was made on and msg the draft it returned.      *)
(***************************************************************************)
Constructors == {"text", "from_str", "from_string"}

\* C5 (as stated): a draft freshly built from plain text s holds text = s,
\* no entities, no media, no reply target, no reply markup, no schedule
\* time, no pending TTL or MIME override, background, clear-draft,
\* invert-media and silent false, and link-preview true.
C5_FreshDraftAsStated ==
    last.op \in Constructors =>
        /\ msg.text = last.arg
        /\ msg.entities = <<>>
        /\ msg.media = None
        /\ msg.reply_to = None
        /\ msg.reply_markup = None
        /\ msg.schedule_date = None
        /\ msg.media_ttl = None
        /\ msg.mime_type = None
        /\ ~msg.background
        /\ ~msg.clear_draft
        /\ ~msg.invert_media
        /\ ~msg.silent
        /\ msg.link_preview

\* C5 (amended): a draft freshly built from plain text s holds text = s, no
\* entities, no media, no reply target, no reply markup, no schedule time,
\* no pending TTL or MIME override, and all five flags (background,
\* clear-draft, invert-media, silent and link-preview) false.
C5_FreshDraft ==
    last.op \in Constructors =>
        /\ msg.text = last.arg
        /\ msg.entities = <<>>
        /\ msg.media = None
        /\ msg.reply_to = None
        /\ msg.reply_markup = None
        /\ msg.schedule_date = None
        /\ msg.media_ttl = None
        /\ msg.mime_type = None
        /\ ~msg.background
        /\ ~msg.clear_draft
        /\ ~msg.invert_media
        /\ ~msg.silent
        /\ ~msg.link_preview

C5_Witness ==
    /\ last = [op |-> "text", arg |-> "hello"]
    /\ msg.text = "hello"
    /\ msg.link_preview = FALSE

\* C6: when document(file) or file(file) attaches an uploaded document, its
\* MIME field is the pending override if one was set before the attach,
\* else the type guessed from the file name if there is a guess, else
\* exactly "application/octet-stream".
C6_MimeResolution ==
    last.op \in {"document", "file"} =>
        /\ IsUploadedDocument(msg.media)
        /\ prev.mime_type.some => msg.media.v.mime_type = prev.mime_type.v
        /\ (~prev.mime_type.some /\ last.arg.name = "video.mp4") =>
                msg.media.v.mime_type = "video/mp4"
        /\ (~prev.mime_type.some /\ last.arg.name = "data.zzz") =>
                msg.media.v.mime_type = "application/octet-stream"

C6_Witness ==
    /\ last.op = "document"
    /\ last.arg.name = "video.mp4"
    /\ prev.mime_type = Some("audio/flac")
    /\ msg.media.v.mime_type = "audio/flac"

TtlAttachOps == {"photo", "photo_url", "document", "document_url", "file"}

\* C7: the TTL field of media attached by photo, photo_url, document,
\* document_url or file is the draft's pending media-ttl at that call; a
\* media_ttl(...) or mime_type(...) call after the attach leaves the
\* attached media unchanged and only updates the pending value.
C7_TtlFixedAtAttach ==
    /\ last.op \in TtlAttachOps =>
            /\ msg.media.some
            /\ msg.media.v.ttl_seconds = prev.media_ttl
            /\ msg.media_ttl = prev.media_ttl
            /\ msg.mime_type = prev.mime_type
    /\ last.op = "media_ttl" =>
            /\ msg.media = prev.media
            /\ msg.media_ttl =
                 IF last.arg < 0 THEN None ELSE Some(last.arg)
            /\ msg.mime_type = prev.mime_type
    /\ last.op = "mime_type" =>
            /\ msg.media = prev.media
            /\ msg.mime_type = Some(last.arg)
            /\ msg.media_ttl = prev.media_ttl

C7_Witness ==
    /\ last = [op |-> "media_ttl", arg |-> 5]
    /\ prev.media.some
    /\ prev.media.v.variant = "UploadedPhoto"
    /\ prev.media.v.ttl_seconds = Some(0)
    /\ msg.media = prev.media
    /\ msg.media_ttl = Some(5)

\* C8: thumbnail(...) and attribute(...) called on a draft whose media is
\* absent or is not an uploaded document return a draft equal to the input
\* draft in every field.
C8_NoOpWithoutDocument ==
    (last.op \in {"thumbnail", "attribute"} /\ ~IsUploadedDocument(prev.media))
        => msg = prev

C8_Witness ==
    /\ last.op = "thumbnail"
    /\ prev.media.some
    /\ prev.media.v.variant = "DocumentExternal"
    /\ msg = prev

\* C9: the schedule time is determined by the last schedule_date /
\* schedule_once_online call alone: after schedule_date(Some(t)) it is the
\* stored form of t whatever was set before (a once-online sentinel set
\* earlier does not survive), after schedule_once_online() it is the
\* sentinel, after schedule_date(None) there is none.
C9_LastScheduleCallWins ==
    /\ (last.op = "schedule_date" /\ last.arg.some) =>
            /\ msg.schedule_date = Some(schedule_time_of(last.arg.v))
            /\ last.arg.v = [after |-> TRUE, hi |-> 0, lo |-> 1700000000] =>
                    msg.schedule_date = Some(1700000000)
            /\ schedule_time_of(last.arg.v) # SCHEDULE_ONCE_ONLINE =>
                    msg.schedule_date # Some(SCHEDULE_ONCE_ONLINE)
    /\ (last.op = "schedule_date" /\ ~last.arg.some) =>
            msg.schedule_date = None
    /\ last.op = "schedule_once_online" =>
            msg.schedule_date = Some(SCHEDULE_ONCE_ONLINE)

C9_Witness ==
    /\ last.op = "schedule_date"
    /\ last.arg = Some([after |-> TRUE, hi |-> 0, lo |-> 1700000000])
    /\ prev.schedule_date = Some(SCHEDULE_ONCE_ONLINE)
    /\ msg.schedule_date = Some(1700000000)

\* What document / file must attach, written out from the call alone.
FreshDocument(f, force, mime, ttl) ==
    [variant |-> "UploadedDocument",
     nosound_video |-> FALSE,
     force_file |-> force,
     spoiler |-> FALSE,
     file |-> f.raw,
     thumb |-> None,
     mime_type |-> mime,
     attributes |->
        <<[variant |-> "DocumentAttributeFilename", file_name |-> f.name]>>,
     stickers |-> None,
     ttl_seconds |-> ttl,
     video_cover |-> None,
     video_timestamp |-> None]

ExpectedMime(override, f) ==
    IF override.some THEN override.v
    ELSE IF f.name = "video.mp4" THEN "video/mp4"
    ELSE "application/octet-stream"

\* C10: a draft holds at most one media, and right after any attach call
\* (photo, photo_url, document, document_url, media, file, copy_media) the
\* media is exactly the one that call produces from its argument and the
\* pending TTL / MIME values: nothing of the earlier media survives, and
\* copy_media of a media with no outgoing form leaves no media.
C10_LastAttachWins ==
    /\ last.op = "photo" =>
            msg.media = Some([variant |-> "UploadedPhoto", spoiler |-> FALSE,
                              file |-> last.arg.raw, stickers |-> None,
                              ttl_seconds |-> prev.media_ttl])
    /\ last.op = "photo_url" =>
            msg.media = Some([variant |-> "PhotoExternal", spoiler |-> FALSE,
                              url |-> last.arg,
                              ttl_seconds |-> prev.media_ttl])
    /\ last.op = "document" =>
            msg.media = Some(FreshDocument(last.arg, FALSE,
                                ExpectedMime(prev.mime_type, last.arg),
                                prev.media_ttl))
    /\ last.op = "file" =>
            msg.media = Some(FreshDocument(last.arg, TRUE,
                                ExpectedMime(prev.mime_type, last.arg),
                                prev.media_ttl))
    /\ last.op = "document_url" =>
            msg.media = Some([variant |-> "DocumentExternal",
                              spoiler |-> FALSE, url |-> last.arg,
                              ttl_seconds |-> prev.media_ttl,
                              video_cover |-> None,
                              video_timestamp |-> None])
    /\ last.op = "media" => msg.media = Some(last.arg)
    /\ (last.op = "copy_media" /\ last.arg.kind = "Unconvertible") =>
            msg.media = None
    /\ (last.op = "copy_media" /\ last.arg.kind # "Unconvertible") =>
            msg.media = to_raw_input_media(last.arg)
    /\ msg # NoMsg => (msg.media = None \/ msg.media = Some(msg.media.v))

C10_Witness ==
    /\ last.op = "copy_media"
    /\ last.arg.kind = "Unconvertible"
    /\ IsUploadedDocument(prev.media)
    /\ prev.media.v.thumb # None
    /\ msg.media = None

\* The tl::enums::DocumentAttribute each logged attribute(...) argument
\* becomes, in order.
RECURSIVE LoggedAttributes(_)
LoggedAttributes(log) ==
    IF log = <<>> THEN <<>>
    ELSE <<attr_into(Head(log))>> \o LoggedAttributes(Tail(log))

\* C11: while the current media is an uploaded document attached by document
\* or file, its attribute list is the filename attribute made from the
\* upload handle's name followed by the attribute of every attribute(...)
\* call since that attach, in call order; each attribute(...) call appends
\* exactly one element at the end and keeps the earlier ones as they were.
C11_AttributesAppendInOrder ==
    /\ doc_log.some =>
            /\ IsUploadedDocument(msg.media)
            /\ Len(msg.media.v.attributes) = 1 + Len(doc_log.v)
            /\ msg.media.v.attributes[1].variant = "DocumentAttributeFilename"
            /\ Tail(msg.media.v.attributes) = LoggedAttributes(doc_log.v)
    /\ last.op \in {"document", "file"} =>
            msg.media.v.attributes =
                <<[variant |-> "DocumentAttributeFilename",
                   file_name |-> last.arg.name]>>
    /\ (last.op = "attribute" /\ IsUploadedDocument(prev.media)) =>
            /\ IsUploadedDocument(msg.media)
            /\ Len(msg.media.v.attributes) =
                    Len(prev.media.v.attributes) + 1
            /\ SubSeq(msg.media.v.attributes, 1,
                      Len(prev.media.v.attributes)) = prev.media.v.attributes
            /\ msg.media.v.attributes[Len(msg.media.v.attributes)] =
                    attr_into(last.arg)

C11_Witness ==
    /\ last.op = "attribute"
    /\ doc_log = Some(<<[kind |-> "FileName", name |-> "renamed.bin"],
                        [kind |-> "Audio", duration |-> 123]>>)
    /\ msg.media.v.attributes =
            <<[variant |-> "DocumentAttributeFilename",
               file_name |-> "video.mp4"],
              [variant |-> "DocumentAttributeFilename",
               file_name |-> "renamed.bin"],
              [variant |-> "DocumentAttributeAudio", duration |-> 123]>>

\* Whole seconds since the epoch (hi * 2^31 + lo) mod 2^32, read as a signed
\* 32-bit integer: bit 31 is set exactly when hi is odd, and then the value
\* is lo - 2^31.
TruncatedToI32(t) ==
    IF t.hi % 2 = 1 THEN (t.lo - 2147483647) - 1 ELSE t.lo

\* C12: schedule_date(Some(t)) stores the whole seconds from the epoch to t
\* mod 2^32 reinterpreted as a signed 32-bit integer when t is at or after
\* the epoch, and 0 when t is before it; schedule_date(None) clears the
\* schedule time.
C12_ScheduleDateStoresI32 ==
    /\ (last.op = "schedule_date" /\ last.arg.some /\ last.arg.v.after) =>
            /\ msg.schedule_date = Some(TruncatedToI32(last.arg.v))
            /\ msg.schedule_date.v >= -I32_MAX - 1
            /\ msg.schedule_date.v <= I32_MAX
            /\ (last.arg.v.hi = 0 /\ last.arg.v.lo = 1700000000) =>
                    msg.schedule_date.v = 1700000000
            /\ (last.arg.v.hi = 1 /\ last.arg.v.lo = 5) =>
                    msg.schedule_date.v = -2147483643
            /\ (last.arg.v.hi = 2 /\ last.arg.v.lo = 7) =>
                    msg.schedule_date.v = 7
            /\ (last.arg.v.hi = 3 /\ last.arg.v.lo = 9) =>
                    msg.schedule_date.v = -2147483639
    /\ (last.op = "schedule_date" /\ last.arg.some /\ ~last.arg.v.after) =>
            msg.schedule_date = Some(0)
    /\ (last.op = "schedule_date" /\ ~last.arg.some) =>
            msg.schedule_date = None

C12_Witness ==
    /\ last.op = "schedule_date"
    /\ last.arg = Some([after |-> TRUE, hi |-> 3, lo |-> 9])
    /\ prev.schedule_date = Some(1700000000)
    /\ msg.schedule_date = Some(-2147483639)

====
